---- MODULE Spec2Model ----
(***************************************************************************)
(* Model of the airdrop contract of src/src/lib.rs (AirdropContract).      *)
(*                                                                         *)
(* The contract keeps an owner, the NEP-141 token contract and a map from  *)
(* accounts to claimable amounts.  claim_airdrop removes the caller's      *)
(* entry and schedules one ft_transfer receipt on the token contract; no   *)
(* callback is attached to that receipt, so its outcome (decided by the    *)
(* token contract, which is outside the repository) never reaches the      *)
(* airdrop contract again.  A panicking call leaves the contract state     *)
(* untouched; its only trace in the model is the outcome record `last`.    *)
(***************************************************************************)
EXTENDS Integers, Sequences, FiniteSets, TLC

(* ------------------------------ bounds --------------------------------- *)
MaxAmount == 1
MaxBatch == 2
MaxPromises == 2

(* ------------------------- program constants --------------------------- *)
(* the deposit attached to the ft_transfer call; the integration test      *)
(* attaches the same deposit to claim_airdrop                              *)
ONE_YOCTO == 1

(* the arguments of `new` used throughout the tests *)
OWNER == "owner.testnet"
TOKEN_CONTRACT == "token.testnet"
USER1 == "user1.testnet"

Accounts == {OWNER, USER1}
Amounts == 0..MaxAmount
Deposits == {0, ONE_YOCTO}

RECURSIVE SeqsUpTo(_, _)
SeqsUpTo(S, n) ==
  IF n = 0 THEN {<<>>}
  ELSE LET shorter == SeqsUpTo(S, n - 1)
       IN shorter \cup {Append(s, x) : s \in shorter, x \in S}

(* --------------------------- contract state ---------------------------- *)
VARIABLES owner_id, token_contract, airdrops, promises, last

vars == <<owner_id, token_contract, airdrops, promises, last>>

(* UnorderedMap<AccountId, u128>: a function on the set of present keys *)
(* Option<u128>: None is the empty sequence, Some(v) is <<v>> *)
None == <<>>

Some(v) == <<v>>

is_some(opt) == opt # None

unwrap_or(opt, default) == IF opt = None THEN default ELSE opt[1]

map_get(m, k) == IF k \in DOMAIN m THEN Some(m[k]) ELSE None

map_insert(m, k, v) == [x \in (DOMAIN m) \cup {k} |-> IF x = k THEN v ELSE m[x]]

map_remove_all(m, k) == [x \in {} |-> 0]

map_remove(m, k) == [x \in (DOMAIN m) \ {k} |-> m[x]]

EmptyMap == [x \in {} |-> 0]

(* outcome of one call: who called what, with which deposit, and whether   *)
(* it returned ("ok") or panicked (the panic message), with its logs       *)
Outcome(op, caller, deposit, result, logs) ==
  [op |-> op, caller |-> caller, deposit |-> deposit, result |-> result, logs |-> logs]

(* AirdropContract::new *)
Init ==
  /\ owner_id = OWNER
  /\ token_contract = TOKEN_CONTRACT
  /\ airdrops = EmptyMap
  /\ promises = <<>>
  /\ last = Outcome("new", owner_id, 0, "ok", <<>>)

(* view methods *)
check_airdrop(account_id) == unwrap_or(map_get(airdrops, account_id), 0)

get_owner == owner_id

(* ------------------------------ add_airdrops --------------------------- *)
add_airdrops_owner_check_omitted(caller) == TRUE

add_airdrops_owner_check(caller) == owner_id = caller

SkipLog(recipient) == [kind |-> "already exists", account |-> recipient]

(* the loop without the "already exists" check *)
RECURSIVE add_airdrops_loop_overwrite(_, _, _, _, _)
add_airdrops_loop_overwrite(m, logs, recipients, amounts, i) ==
  IF i > Len(recipients) THEN [airdrops |-> m, logs |-> logs]
  ELSE add_airdrops_loop_overwrite(map_insert(m, recipients[i], amounts[i]), logs,
                                   recipients, amounts, i + 1)

RECURSIVE add_airdrops_loop(_, _, _, _, _)
add_airdrops_loop(m, logs, recipients, amounts, i) ==
  IF i > Len(recipients) THEN [airdrops |-> m, logs |-> logs]
  ELSE IF is_some(map_get(m, recipients[i]))
       THEN add_airdrops_loop(m, Append(logs, SkipLog(recipients[i])),
                              recipients, amounts, i + 1)
       ELSE add_airdrops_loop(map_insert(m, recipients[i], amounts[i]), logs,
                              recipients, amounts, i + 1)

add_airdrops(caller, deposit, recipients, amounts) ==
  IF ~add_airdrops_owner_check(caller)
  THEN /\ last' = Outcome("add_airdrops", caller, deposit,
                          "Only the owner can add airdrops.", <<>>)
       /\ UNCHANGED <<owner_id, token_contract, airdrops, promises>>
  ELSE IF Len(recipients) # Len(amounts)
  THEN /\ last' = Outcome("add_airdrops", caller, deposit,
                          "Recipients and amounts length mismatch.", <<>>)
       /\ UNCHANGED <<owner_id, token_contract, airdrops, promises>>
  ELSE LET r == add_airdrops_loop(airdrops, <<>>, recipients, amounts, 1)
       IN /\ airdrops' = r.airdrops
          /\ last' = Outcome("add_airdrops", caller, deposit, "ok", r.logs)
          /\ UNCHANGED <<owner_id, token_contract, promises>>

(* ----------------------------- update_airdrop -------------------------- *)
update_airdrop_owner_check(caller) == owner_id = caller

UpdateLog(recipient, amount) ==
  [kind |-> "updated", account |-> recipient, amount |-> amount]

NotListed(recipient) == "Account @" \o recipient \o " is not in the airdrop list."

(* update_airdrop without the check that the recipient is listed *)
update_airdrop_upsert(caller, deposit, recipient, amount) ==
  IF ~update_airdrop_owner_check(caller)
  THEN /\ last' = Outcome("update_airdrop", caller, deposit,
                          "Only the owner can update airdrops.", <<>>)
       /\ UNCHANGED <<owner_id, token_contract, airdrops, promises>>
  ELSE /\ airdrops' = map_insert(airdrops, recipient, amount)
       /\ last' = Outcome("update_airdrop", caller, deposit, "ok",
                          <<UpdateLog(recipient, amount)>>)
       /\ UNCHANGED <<owner_id, token_contract, promises>>

(* update_airdrop writing the recipient into owner_id as well *)
update_airdrop_sets_owner(caller, deposit, recipient, amount) ==
  IF ~update_airdrop_owner_check(caller)
  THEN /\ last' = Outcome("update_airdrop", caller, deposit,
                          "Only the owner can update airdrops.", <<>>)
       /\ UNCHANGED <<owner_id, token_contract, airdrops, promises>>
  ELSE IF ~is_some(map_get(airdrops, recipient))
  THEN /\ last' = Outcome("update_airdrop", caller, deposit,
                          NotListed(recipient), <<>>)
       /\ UNCHANGED <<owner_id, token_contract, airdrops, promises>>
  ELSE /\ airdrops' = map_insert(airdrops, recipient, amount)
       /\ owner_id' = recipient
       /\ last' = Outcome("update_airdrop", caller, deposit, "ok",
                          <<UpdateLog(recipient, amount)>>)
       /\ UNCHANGED <<token_contract, promises>>

update_airdrop(caller, deposit, recipient, amount) ==
  IF ~update_airdrop_owner_check(caller)
  THEN /\ last' = Outcome("update_airdrop", caller, deposit,
                          "Only the owner can update airdrops.", <<>>)
       /\ UNCHANGED <<owner_id, token_contract, airdrops, promises>>
  ELSE IF ~is_some(map_get(airdrops, recipient))
  THEN /\ last' = Outcome("update_airdrop", caller, deposit,
                          NotListed(recipient), <<>>)
       /\ UNCHANGED <<owner_id, token_contract, airdrops, promises>>
  ELSE /\ airdrops' = map_insert(airdrops, recipient, amount)
       /\ last' = Outcome("update_airdrop", caller, deposit, "ok",
                          <<UpdateLog(recipient, amount)>>)
       /\ UNCHANGED <<owner_id, token_contract, promises>>

(* ------------------------------ claim_airdrop -------------------------- *)
has_tokens_ge(amount) == amount >= 0

(* the assert left out *)
has_tokens_unchecked(amount) == TRUE

has_tokens(amount) == amount > 0

(* the receipt created by Promise::new(token_contract).function_call(..) *)
(* the amount read after the entry is removed *)
FtTransfer_after_remove(token, receiver_id, amount) ==
  [token |-> token, method |-> "ft_transfer", receiver_id |-> receiver_id,
   amount |-> 0, deposit |-> ONE_YOCTO, status |-> "pending"]

FtTransfer(token, receiver_id, amount) ==
  [token |-> token, method |-> "ft_transfer", receiver_id |-> receiver_id,
   amount |-> amount, deposit |-> ONE_YOCTO, status |-> "pending"]

ClaimLog(account_id, amount, token) ==
  [kind |-> "claimed", account |-> account_id, amount |-> amount, token |-> token]

claim_airdrop(caller, deposit) ==
  LET account_id == caller
      amount == unwrap_or(map_get(airdrops, account_id), 0)
  IN IF ~has_tokens(amount)
     THEN /\ last' = Outcome("claim_airdrop", caller, deposit,
                             "You have no tokens to claim.", <<>>)
          /\ UNCHANGED <<owner_id, token_contract, airdrops, promises>>
     ELSE /\ Len(promises) < MaxPromises
          /\ airdrops' = map_remove(airdrops, account_id)
          /\ promises' = Append(promises, FtTransfer(token_contract, account_id, amount))
          /\ last' = Outcome("claim_airdrop", caller, deposit, "ok",
                             <<ClaimLog(account_id, amount, token_contract)>>)
          /\ UNCHANGED <<owner_id, token_contract>>

(* ------------------- the token contract answers a receipt -------------- *)
(* No callback is attached to the ft_transfer receipt: whatever the token  *)
(* contract answers, the airdrop contract's state is not touched.          *)
ft_transfer_resolved(i, success) ==
  /\ i \in 1..Len(promises)
  /\ promises[i].status = "pending"
  /\ promises' = [promises EXCEPT ![i].status = IF success THEN "ok" ELSE "failed"]
  /\ last' = Outcome("ft_transfer", promises[i].receiver_id, promises[i].deposit,
                     IF success THEN "ok" ELSE "failed", <<>>)
  /\ UNCHANGED <<owner_id, token_contract, airdrops>>

(* ---------------------------- specification ---------------------------- *)
(* argument lists of add_airdrops, of equal and of different lengths *)
RecipientLists == SeqsUpTo(Accounts, MaxBatch)

AmountLists == SeqsUpTo(Amounts, MaxBatch)

AddAirdrops(D) ==
  \E caller \in Accounts, deposit \in D,
     recipients \in RecipientLists, amounts \in AmountLists :
       add_airdrops(caller, deposit, recipients, amounts)

UpdateAirdrop(D) ==
  \E caller \in Accounts, deposit \in D, recipient \in Accounts, amount \in Amounts :
       update_airdrop(caller, deposit, recipient, amount)

ClaimAirdrop(D) ==
  \E caller \in Accounts, deposit \in D : claim_airdrop(caller, deposit)

FtTransferResolved ==
  \E i \in 1..MaxPromises, success \in BOOLEAN : ft_transfer_resolved(i, success)

(* Spec: every call comes without a deposit, as in the unit tests          *)
(* (get_context(.., 0)).  The contract never reads the attached deposit.   *)
Next ==
  \/ AddAirdrops({0})
  \/ UpdateAirdrop({0})
  \/ ClaimAirdrop({0})
  \/ FtTransferResolved

Spec == Init /\ [][Next]_vars

(* SpecDeposit: callers attach nothing or one yoctoNEAR *)
NextDeposit ==
  \/ AddAirdrops(Deposits)
  \/ UpdateAirdrop(Deposits)
  \/ ClaimAirdrop(Deposits)
  \/ FtTransferResolved

SpecDeposit == Init /\ [][NextDeposit]_vars

TypeOK ==
  /\ owner_id \in Accounts
  /\ token_contract = TOKEN_CONTRACT
  /\ DOMAIN airdrops \subseteq Accounts
  /\ \A a \in DOMAIN airdrops : airdrops[a] \in Amounts
  /\ Len(promises) <= MaxPromises

(* ------------------------ vocabulary of the claims --------------------- *)
(* the payouts (ft_transfer receipts) issued for account a, oldest first *)
SagasOf(a) == {i \in 1..Len(promises) : promises[i].receiver_id = a}

InFlight(a) == {i \in SagasOf(a) : promises[i].status = "pending"}

CompletedTransfers(a) == Cardinality({i \in SagasOf(a) : promises[i].status = "ok"})

LatestSaga(a) == CHOOSE i \in SagasOf(a) : \A j \in SagasOf(a) : j <= i

(* a has had a claim accepted and is not claimable: its entry is gone *)
has_claimed(a) == SagasOf(a) # {} /\ a \notin DOMAIN airdrops

ContractState == <<owner_id, token_contract, airdrops, promises>>

AdminOps == {"add_airdrops", "update_airdrop"}

(* C1: for every recipient, the number of completed ledger transfers to    *)
(* that recipient is at most one, whatever claims, ledger responses and    *)
(* administrative operations have happened.                                *)
C1_AtMostOneTransferPerRecipient ==
  \A a \in Accounts : CompletedTransfers(a) <= 1

(* C2: once a claim of account a has succeeded (its transfer completed),   *)
(* every later claim_airdrop by a is rejected, whatever happened between.  *)
C2_NoDoubleClaim ==
  [][\A a \in Accounts :
       (CompletedTransfers(a) >= 1 /\ last'.op = "claim_airdrop" /\ last'.caller = a)
         => last'.result # "ok"]_vars

(* C3: an account that is marked claimed has its latest payout either      *)
(* completed or still in flight, never ended in failure.                   *)
C3_ClaimedImpliesCompletedOrInFlight ==
  \A a \in Accounts :
    has_claimed(a) => promises[LatestSaga(a)].status \in {"ok", "pending"}

(* C4: when the latest payout of account a has failed, the next            *)
(* claim_airdrop by a is accepted: the account is not left stuck.          *)
C4_RollbackRestoresEligibility ==
  [][\A a \in Accounts :
       (/\ SagasOf(a) # {}
        /\ promises[LatestSaga(a)].status = "failed"
        /\ last'.op = "claim_airdrop" /\ last'.caller = a)
         => last'.result = "ok"]_vars

(* C5: a claim_airdrop whose caller has nothing to claim (no entry, entry  *)
(* already claimed, or amount 0) panics, and every claim_airdrop that      *)
(* panics leaves the contract state unchanged and issues no receipt.       *)
C5_RejectedClaimChangesNothing ==
  [][\A a \in Accounts :
       (last'.op = "claim_airdrop" /\ last'.caller = a)
         => /\ check_airdrop(a) = 0 => last'.result = "You have no tokens to claim."
            /\ last'.result # "ok" => UNCHANGED ContractState]_vars

(* witness of C5: an account that has already claimed claims again and is  *)
(* rejected, while another entry is still listed                           *)
C5_Witness ==
  /\ last.op = "claim_airdrop"
  /\ last.result = "You have no tokens to claim."
  /\ has_claimed(last.caller)
  /\ DOMAIN airdrops # {}

(* C6: add_airdrops and update_airdrop called by anyone but the owner      *)
(* panic and leave the contract state unchanged; an allocation is created  *)
(* or changed only by an administrative call of the owner.                 *)
C6_OnlyOwnerAdministers ==
  [][/\ (last'.op \in AdminOps /\ last'.caller # owner_id)
          => (last'.result # "ok" /\ UNCHANGED ContractState)
     /\ \A a \in DOMAIN airdrops' :
          (a \notin DOMAIN airdrops \/ airdrops'[a] # airdrops[a])
            => (last'.op \in AdminOps /\ last'.caller = owner_id)]_vars

(* witness of C6: a non-owner has tried to list itself while the owner's   *)
(* list is not empty, and was rejected                                     *)
C6_Witness ==
  /\ last.op = "add_airdrops"
  /\ last.caller # owner_id
  /\ last.result = "Only the owner can add airdrops."
  /\ DOMAIN airdrops # {}

(* C7: every ft_transfer receipt is preceded by a register-recipient       *)
(* (storage_deposit) receipt for the same recipient that has succeeded.    *)
C7_TransferOnlyAfterRegistration ==
  \A i \in 1..Len(promises) :
    promises[i].method = "ft_transfer"
      => \E j \in 1..(i - 1) :
           /\ promises[j].method = "storage_deposit"
           /\ promises[j].receiver_id = promises[i].receiver_id
           /\ promises[j].status = "ok"

(* C8: at any time at most one payout is in flight for a given recipient.  *)
C8_AtMostOneSagaInFlight ==
  \A a \in Accounts : Cardinality(InFlight(a)) <= 1

(* C9: a call of claim_airdrop, add_airdrops or update_airdrop that        *)
(* attaches no deposit is rejected.                                        *)
C9_NoDepositRejected ==
  (last.op \in AdminOps \cup {"claim_airdrop"} /\ last.deposit = 0)
    => last.result # "ok"

(* C10: the record that an account claimed its tokens is logged only when  *)
(* the ledger transfer of that claim has succeeded.                        *)
C10_CompletionRecordAfterTransfer ==
  \A k \in 1..Len(last.logs) :
    last.logs[k].kind = "claimed"
      => \E i \in SagasOf(last.logs[k].account) :
           /\ promises[i].amount = last.logs[k].amount
           /\ promises[i].status = "ok"

(* C11: a step of account a's payout (its claim_airdrop being accepted or  *)
(* rejected, or the token contract answering one of its receipts) leaves   *)
(* the entry, the claimed status and every receipt of any other account b  *)
(* as they were.                                                           *)
C11_SagasDoNotInteract ==
  [][\A a \in Accounts :
       (last'.op \in {"claim_airdrop", "ft_transfer"} /\ last'.caller = a)
         => \A b \in Accounts \ {a} :
              /\ map_get(airdrops', b) = map_get(airdrops, b)
              /\ has_claimed(b)' = has_claimed(b)
              /\ SagasOf(b)' = SagasOf(b)
              /\ \A i \in SagasOf(b) : promises'[i] = promises[i]]_vars

(* witness of C11: payouts of two different accounts are in flight at the  *)
(* same time, and the latest step was the claim of one of them             *)
C11_Witness ==
  /\ \A a \in Accounts : InFlight(a) # {}
  /\ last.op = "claim_airdrop"
  /\ last.result = "ok"

(* C12: an administrative operation leaves has_claimed(a) as it was, for   *)
(* every account a: none of them un-claims an account.  (The code has no   *)
(* committed root; its administrative operations are add_airdrops and      *)
(* update_airdrop, which change the committed allocations.)                *)
C12_AdministrationKeepsClaimed ==
  [][last'.op \in AdminOps
       => \A a \in Accounts : has_claimed(a)' = has_claimed(a)]_vars

(* C13: once the ledger has answered the latest payout of account a, the   *)
(* payout is in exactly one terminal stage: completed, with a still        *)
(* claimed, or rolled back, with a no longer marked claimed.               *)
C13_TerminalStage ==
  \A a \in Accounts :
    (SagasOf(a) # {} /\ InFlight(a) = {})
      => \/ promises[LatestSaga(a)].status = "ok" /\ has_claimed(a)
         \/ promises[LatestSaga(a)].status = "failed" /\ ~has_claimed(a)

(* C15: an accepted claim_airdrop of account a adds exactly one receipt:   *)
(* an ft_transfer on the token contract whose receiver is a and whose      *)
(* amount is the value stored for a before the call; a rejected            *)
(* claim_airdrop adds no receipt.                                          *)
C15_OneTransferOfStoredAmount ==
  [][\A a \in Accounts :
       (last'.op = "claim_airdrop" /\ last'.caller = a)
         => IF last'.result = "ok"
            THEN /\ Len(promises') = Len(promises) + 1
                 /\ SubSeq(promises', 1, Len(promises)) = promises
                 /\ promises'[Len(promises')].method = "ft_transfer"
                 /\ promises'[Len(promises')].token = token_contract
                 /\ promises'[Len(promises')].receiver_id = a
                 /\ promises'[Len(promises')].amount = check_airdrop(a)
                 /\ promises'[Len(promises')].status = "pending"
            ELSE promises' = promises]_vars

(* witness of C15: a claim was accepted and its receipt, the newest one,    *)
(* carries the positive amount that the claim logged                       *)
C15_Witness ==
  /\ last.op = "claim_airdrop"
  /\ last.result = "ok"
  /\ Len(promises) >= 1
  /\ promises[Len(promises)].receiver_id = last.caller
  /\ promises[Len(promises)].amount = last.logs[1].amount
  /\ promises[Len(promises)].amount > 0

(* the map that add_airdrops(recipients, amounts) by the owner leaves,     *)
(* started from map m                                                      *)
AddedTo(m, recipients, amounts) ==
  add_airdrops_loop(m, <<>>, recipients, amounts, 1).airdrops

FirstIndexOf(recipients, r) ==
  CHOOSE i \in 1..Len(recipients) :
    recipients[i] = r /\ \A j \in 1..(i - 1) : recipients[j] # r

EqualLengthArgs ==
  {rs \in RecipientLists \X AmountLists : Len(rs[1]) = Len(rs[2])}

(* C16: from every reachable list and for every batch, add_airdrops leaves *)
(* the amount of every recipient already listed as it was; calling it a    *)
(* second time with the same arguments changes nothing more; a recipient   *)
(* new to the list gets the amount of its first occurrence in the batch.   *)
C16_AddNeverOverwrites ==
  \A rs \in EqualLengthArgs :
    LET once == AddedTo(airdrops, rs[1], rs[2])
    IN /\ \A a \in DOMAIN airdrops : a \in DOMAIN once /\ once[a] = airdrops[a]
       /\ AddedTo(once, rs[1], rs[2]) = once
       /\ \A k \in 1..Len(rs[1]) :
            rs[1][k] \notin DOMAIN airdrops
              => once[rs[1][k]] = rs[2][FirstIndexOf(rs[1], rs[1][k])]

(* witness of C16: an add_airdrops of the owner has skipped a recipient    *)
(* that was already listed                                                 *)
C16_Witness ==
  /\ last.op = "add_airdrops"
  /\ last.result = "ok"
  /\ Len(last.logs) >= 1
  /\ last.logs[1].kind = "already exists"
  /\ last.logs[1].account \in DOMAIN airdrops

(* C17: update_airdrop never changes which recipients are listed, nor the  *)
(* owner, the token contract or the receipts.  Rejected for a recipient    *)
(* that is not listed, it leaves the map as it was; accepted, its          *)
(* recipient was listed, gets the given amount, and every other entry      *)
(* stays as it was.                                                        *)
C17_UpdateKeepsRecipients ==
  [][last'.op = "update_airdrop"
       => /\ DOMAIN airdrops' = DOMAIN airdrops
          /\ UNCHANGED <<owner_id, token_contract, promises>>
          /\ \A r \in Accounts :
               /\ last'.result = NotListed(r)
                    => (r \notin DOMAIN airdrops /\ airdrops' = airdrops)
               /\ (last'.result = "ok" /\ last'.logs[1].account = r)
                    => /\ last'.caller = owner_id
                       /\ r \in DOMAIN airdrops
                       /\ airdrops'[r] = last'.logs[1].amount
                       /\ \A b \in DOMAIN airdrops \ {r} : airdrops'[b] = airdrops[b]
          /\ last'.result # "ok" => airdrops' = airdrops]_vars

(* witness of C17: the owner's update_airdrop for a recipient that is not  *)
(* listed was rejected while another recipient is listed                   *)
C17_Witness ==
  /\ last.op = "update_airdrop"
  /\ last.caller = owner_id
  /\ \E r \in Accounts \ DOMAIN airdrops : last.result = NotListed(r)
  /\ DOMAIN airdrops # {}

(* C18: claim_airdrop by account a is accepted exactly when                *)
(* check_airdrop(a) > 0 before the call; an entry of amount 0 is rejected  *)
(* and stays in the map as it was.                                         *)
C18_ClaimIffPositive ==
  [][\A a \in Accounts :
       (last'.op = "claim_airdrop" /\ last'.caller = a)
         => /\ last'.result = "ok" <=> check_airdrop(a) > 0
            /\ (a \in DOMAIN airdrops /\ airdrops[a] = 0)
                 => (a \in DOMAIN airdrops' /\ airdrops'[a] = 0 /\ airdrops' = airdrops)]_vars

(* witness of C18: an account listed with amount 0 has claimed and was     *)
(* rejected; its entry is still there                                      *)
C18_Witness ==
  /\ last.op = "claim_airdrop"
  /\ last.result = "You have no tokens to claim."
  /\ last.caller \in DOMAIN airdrops
  /\ airdrops[last.caller] = 0

(* C19: in every reachable state the owner and the token contract are the  *)
(* ones passed to new, and get_owner returns that owner.                   *)
C19_OwnerAndTokenFixed ==
  /\ owner_id = OWNER
  /\ token_contract = TOKEN_CONTRACT
  /\ get_owner = OWNER

(* witness of C19: entries have been added and updated, a claim has been   *)
(* paid and another account is still listed                                *)
C19_Witness ==
  /\ last.op = "update_airdrop"
  /\ last.result = "ok"
  /\ \E i \in 1..Len(promises) : promises[i].status = "ok"
  /\ DOMAIN airdrops # {}

(* ======================= Eligibility Verifier ========================== *)
(* The integration test (tests/test_basics.rs) calls a claim_airdrop that  *)
(* takes an amount and a Merkle proof and a `new` that takes a root; the   *)
(* contract of lib.rs has neither.  The verifier below follows the         *)
(* specification (section 4.1).  The hash is an ideal one: distinct inputs *)
(* have distinct hashes, here distinct numbers.                            *)
USER2 == "user2.testnet"
USER3 == "user3.testnet"

(* the proof of the integration test has two siblings: a tree of 4 leaves *)
ProofLen == 2
HexWidth == 8
MaxFlipBit == 5

MerkleAccounts == <<OWNER, USER1, USER2, USER3>>

AccountIndex(account) == CHOOSE i \in 1..Len(MerkleAccounts) : MerkleAccounts[i] = account

Min(a, b) == IF a <= b THEN a ELSE b

Max(a, b) == IF a <= b THEN b ELSE a

(* hash of the leaf bytes "account:amount" *)
hash_leaf(account, amount) ==
  2 * ((AccountIndex(account) - 1) * (MaxAmount + 1) + amount)

(* hash of the concatenation a ++ b of two hashes *)
hash_concat(a, b) == 2 * (((a + b) * (a + b + 1)) \div 2 + b) + 1

hash_pair_unsorted(h, s) == hash_concat(h, s)

(* one step of the fold: hash(min(h,s) ++ max(h,s)) *)
hash_pair(h, s) == hash_concat(Min(h, s), Max(h, s))

HexDigits == <<"0", "1", "2", "3", "4", "5", "6", "7", "8", "9", "a", "b", "c", "d", "e", "f">>

RECURSIVE HexOf(_, _)
HexOf(n, width) ==
  IF width = 0 THEN ""
  ELSE HexOf(n \div 16, width - 1) \o HexDigits[(n % 16) + 1]

(* canonical (lowercase, fixed length) hex encoding of a hash *)
hex_encode(h) == HexOf(h, HexWidth)

RECURSIVE fold_proof(_, _, _)
fold_proof(h, proof, i) ==
  IF i > Len(proof) THEN h
  ELSE fold_proof(hash_pair(h, proof[i]), proof, i + 1)

verify(account, amount, root, proof) ==
  hex_encode(fold_proof(hash_leaf(account, amount), proof, 1)) = root

(* ---- the committed tree and the proofs generated off-chain from it ---- *)
RECURSIVE Pow2(_)
Pow2(n) == IF n = 0 THEN 1 ELSE 2 * Pow2(n - 1)

NumLeaves == Pow2(ProofLen)

LeafLevel(amounts) ==
  [i \in 1..NumLeaves |-> hash_leaf(MerkleAccounts[i], amounts[i])]

ParentLevel(level) ==
  [i \in 1..(Len(level) \div 2) |->
     hash_concat(Min(level[2 * i - 1], level[2 * i]), Max(level[2 * i - 1], level[2 * i]))]

RECURSIVE TreeRoot(_)
TreeRoot(level) == IF Len(level) = 1 THEN level[1] ELSE TreeRoot(ParentLevel(level))

RECURSIVE ProofFor(_, _)
ProofFor(level, j) ==
  IF Len(level) = 1 THEN <<>>
  ELSE <<IF j % 2 = 1 THEN level[j + 1] ELSE level[j - 1]>>
         \o ProofFor(ParentLevel(level), (j + 1) \div 2)

FlipBit(n, b) == IF (n \div Pow2(b)) % 2 = 1 THEN n - Pow2(b) ELSE n + Pow2(b)

VerifierCall(op, account, amount, root, proof, changed, result) ==
  [op |-> op, caller |-> account, amount |-> amount, root |-> root,
   proof |-> proof, changed |-> changed, result |-> result,
   deposit |-> 0, logs |-> <<>>]

(* a tree is committed and account number j presents its leaf and proof *)
InitVerify ==
  /\ owner_id = OWNER
  /\ token_contract = TOKEN_CONTRACT
  /\ airdrops = EmptyMap
  /\ promises = <<>>
  /\ \E amounts \in [1..NumLeaves -> Amounts], j \in 1..NumLeaves :
       last = VerifierCall("commit", MerkleAccounts[j], amounts[j],
                           hex_encode(TreeRoot(LeafLevel(amounts))),
                           ProofFor(LeafLevel(amounts), j), "nothing", FALSE)

(* one bit of one sibling is flipped *)
ChangeSibling ==
  /\ last.op = "commit"
  /\ \E k \in 1..Len(last.proof), b \in 0..MaxFlipBit :
       last' = [last EXCEPT !.op = "change", !.changed = "sibling",
                            !.proof[k] = FlipBit(last.proof[k], b)]
  /\ UNCHANGED <<owner_id, token_contract, airdrops, promises>>

(* the account or the amount of the leaf input is changed *)
ChangeLeaf ==
  /\ last.op = "commit"
  /\ \/ \E account \in {MerkleAccounts[i] : i \in 1..NumLeaves} \ {last.caller} :
          last' = [last EXCEPT !.op = "change", !.changed = "account", !.caller = account]
     \/ \E amount \in Amounts \ {last.amount} :
          last' = [last EXCEPT !.op = "change", !.changed = "amount", !.amount = amount]
  /\ UNCHANGED <<owner_id, token_contract, airdrops, promises>>

Verify ==
  /\ last.op \in {"commit", "change"}
  /\ last' = [last EXCEPT !.op = "verify",
                          !.result = verify(last.caller, last.amount, last.root, last.proof)]
  /\ UNCHANGED <<owner_id, token_contract, airdrops, promises>>

NextVerify == ChangeSibling \/ ChangeLeaf \/ Verify

SpecVerify == InitVerify /\ [][NextVerify]_vars

(* C14: verify accepts a leaf of the committed tree presented with its     *)
(* sibling path, and rejects it once a single sibling, the account or the  *)
(* amount has been changed.                                                *)
C14_ProofCorrectness ==
  last.op = "verify" => (last.result <=> last.changed = "nothing")

(* witness of C14: a presentation with a changed sibling has been verified *)
(* and rejected                                                            *)
C14_Witness ==
  /\ last.op = "verify"
  /\ last.changed = "sibling"
  /\ last.result = FALSE
====
